---- MODULE Spec2Model ----
(***************************************************************************)
(* Model of the honeypot checker service (src/honeypot_service.py,         *)
(* src/honeypot_detector.py, src/database.py, src/checkHP.py).             *)
(*                                                                         *)
(* Text is modelled as a sequence of characters, a character being a       *)
(* one-element string.  The two CJK characters of the protocol are written *)
(* by their code points because the module text is ASCII.                  *)
(***************************************************************************)
EXTENDS Integers, Sequences, FiniteSets, TLC

\* ------------------------------------------------------------------ text

SHI == "U+662F"     \* the positive marker of the prompt's protocol
FOU == "U+5426"     \* the negative marker of the prompt's protocol
NL  == "\n"

Whitespace == {" ", NL, "\t", "\r"}
Digits == {"0", "1", "2", "3", "4", "5", "6", "7", "8", "9"}

DigitVal(c) ==
    CASE c = "0" -> 0 [] c = "1" -> 1 [] c = "2" -> 2 [] c = "3" -> 3
      [] c = "4" -> 4 [] c = "5" -> 5 [] c = "6" -> 6 [] c = "7" -> 7
      [] c = "8" -> 8 [] c = "9" -> 9

\* str.lower() on one character: the ASCII capitals the model uses are mapped,
\* every other character (digits, punctuation, CJK) is left as it is.
LowerChar(c) ==
    CASE c = "A" -> "a" [] c = "B" -> "b" [] c = "C" -> "c" [] c = "D" -> "d"
      [] c = "E" -> "e" [] c = "F" -> "f" [] c = "N" -> "n" [] c = "O" -> "o"
      [] c = "R" -> "r" [] c = "S" -> "s" [] c = "X" -> "x" [] c = "Y" -> "y"
      [] OTHER -> c

str_lower(s) == [i \in 1..Len(s) |-> LowerChar(s[i])]

str_startswith(s, prefix) ==
    /\ Len(s) >= Len(prefix)
    /\ SubSeq(s, 1, Len(prefix)) = prefix

\* `sub in s`
str_contains(s, sub) ==
    \E i \in 1..(Len(s) - Len(sub) + 1) : SubSeq(s, i, i + Len(sub) - 1) = sub

SetMin(S) == CHOOSE x \in S : \A y \in S : x <= y
SetMax(S) == CHOOSE x \in S : \A y \in S : x >= y

\* the k-th smallest element of a set of numbers
Nth(S, k) == CHOOSE x \in S : Cardinality({y \in S : y < x}) = k - 1

\* s.split('\n'): the pieces between the line feeds, always at least one
str_split(s) ==
    LET feeds == {i \in 1..Len(s) : s[i] = NL}
        n     == Cardinality(feeds) + 1
        first(k) == IF k = 1 THEN 1 ELSE Nth(feeds, k - 1) + 1
        last(k)  == IF k = n THEN Len(s) ELSE Nth(feeds, k) - 1
    IN  [k \in 1..n |-> SubSeq(s, first(k), last(k))]

\* s.strip(): leading and trailing whitespace removed
str_strip(s) ==
    LET kept == {i \in 1..Len(s) : s[i] \notin Whitespace}
    IN  IF kept = {} THEN <<>> ELSE SubSeq(s, SetMin(kept), SetMax(kept))

\* re.findall(r'\d+', s): the maximal digit runs, left to right
re_findall_digits(s) ==
    LET starts == {i \in 1..Len(s) :
                      s[i] \in Digits /\ (i = 1 \/ s[i - 1] \notin Digits)}
        stops  == {i \in 1..Len(s) :
                      s[i] \in Digits /\ (i = Len(s) \/ s[i + 1] \notin Digits)}
    IN  [k \in 1..Cardinality(starts) |-> SubSeq(s, Nth(starts, k), Nth(stops, k))]

\* int(num) for a non-empty digit run (leading zeros drop out)
RECURSIVE int_of(_)
int_of(num) ==
    IF num = <<>> THEN 0
    ELSE 10 * int_of(SubSeq(num, 1, Len(num) - 1)) + DigitVal(num[Len(num)])

FinalResponseMarker ==
    <<"F", "i", "n", "a", "l", " ", "R", "e", "s", "p", "o", "n", "s", "e", ":">>

\* the first line that holds the marker anywhere, 0 when there is none
FirstMarkerAnywhere(lines) ==
    LET marked == {i \in 1..Len(lines) : str_contains(lines[i], FinalResponseMarker)}
    IN  IF marked = {} THEN 0 ELSE SetMin(marked)

\* index of the first line that starts with the marker, 0 when there is none
FirstMarker(lines) ==
    LET marked == {i \in 1..Len(lines) : str_startswith(lines[i], FinalResponseMarker)}
    IN  IF marked = {} THEN 0 ELSE SetMin(marked)

\* the value of final_response after the loop; <<>> stands for None and for ""
\* alike, which `if not final_response` does not tell apart
FinalResponseOf(output) ==
    LET lines == str_split(output)
        i     == FirstMarker(lines)
    IN  IF i = 0 THEN <<>>
        ELSE IF i + 1 <= Len(lines) THEN str_strip(lines[i + 1])
        ELSE <<>>

\* the test for the negative tokens on the line as it is, .lower() left out
IsNegativeCaseSensitive(final_response) ==
    \/ str_contains(final_response, <<FOU>>)
    \/ str_contains(final_response, <<"n", "o">>)

IsNegative(final_response) ==
    \/ str_contains(str_lower(final_response), <<FOU>>)
    \/ str_contains(str_lower(final_response), <<"n", "o">>)

IsPositive(final_response) == str_contains(final_response, <<SHI>>)

extract_reasons(output) ==
    LET final_response == FinalResponseOf(output)
    IN  IF final_response = <<>> THEN <<0>>
        ELSE IF IsNegative(final_response) THEN <<0>>
        ELSE IF IsPositive(final_response)
                 /\ re_findall_digits(final_response) /= <<>>
             THEN LET numbers == re_findall_digits(final_response)
                  IN  [k \in 1..Len(numbers) |-> int_of(numbers[k])]
        ELSE <<0>>

\* analyze_contract's verdict from the reasons
is_honeypot_of(reasons) == Len(reasons) > 0 /\ reasons[1] /= 0


\* ------------------------------------------------------------ the service

NumCalls == 2       \* analyze requests, numbered in order of arrival

Calls == 1..NumCalls

None == "None"
NoFile == "NoFile"

AddrLen == 42

\* a well-formed address: the prefix padded with '1' to 42 characters
PadAddress(prefix) == prefix \o [i \in 1..(AddrLen - Len(prefix)) |-> "1"]

AddrMixed == PadAddress(<<"0", "x", "A", "b">>)
AddrLower == PadAddress(<<"0", "x", "a", "b">>)
AddrShort == <<"0", "x", "C", "d">>      \* malformed: 4 characters

\* The address strings of the model.  The state holds an address by its name
\* in this table; every operation on it is computed on the characters.
AddressBook ==
    [n \in {"mixed", "lower", "short", "short_lower"} |->
        CASE n = "mixed" -> AddrMixed
          [] n = "lower" -> AddrLower
          [] n = "short" -> AddrShort
          [] n = "short_lower" -> str_lower(AddrShort)]

NameOf(chars) == CHOOSE n \in DOMAIN AddressBook : AddressBook[n] = chars

\* token_address.lower(), for every address of the table
LowerOf == [n \in DOMAIN AddressBook |-> NameOf(str_lower(AddressBook[n]))]

\* the address used as it was given, .lower() left out
address_as_given(token_address) == token_address

address_lower(token_address) == LowerOf[token_address]

\* two address strings that differ at most in letter case
SameTokenTable ==
    [a \in DOMAIN AddressBook |-> [b \in DOMAIN AddressBook |->
        str_lower(AddressBook[a]) = str_lower(AddressBook[b])]]

SameToken(a, b) == SameTokenTable[a][b]

\* the address strings without a capital letter
LowerCased == {a \in DOMAIN AddressBook : AddressBook[a] = str_lower(AddressBook[a])}

\* the addresses that requests carry
Addresses == {"mixed", "lower", "short"}

\* request.source_code when the caller supplies it, and what the explorer
\* holds as verified source
SourceOverrides == {"contract S"}
ExplorerSources == {"contract E"}

\* message.content of the completions the backend gives
ContentNo    == <<FOU>>
ContentYes13 == <<SHI, "1", ",", "3">>

Contents == {ContentNo, ContentYes13}

ReasoningContent == <<"o", "k">>

LineClientCreated     == <<"c", "l", "i", "e", "n", "t", " ", "c", "r", "e", "a", "t", "e", "d">>
LineCompletionCreated == <<"c", "o", "m", "p", "l", "e", "t", "i", "o", "n", " ", "c", "r", "e", "a", "t", "e", "d">>
LineReasoningContent  == <<"R", "e", "a", "s", "o", "n", "i", "n", "g", " ", "C", "o", "n", "t", "e", "n", "t", ":">>
LineCompletionTokens ==
    <<"N", "u", "m", "b", "e", "r", " ", "o", "f", " ", "c", "o", "m", "p",
      "l", "e", "t", "i", "o", "n", " ", "t", "o", "k", "e", "n", "s", " ",
      "(", "i", "n", "p", "u", "t", ")", ":">>
LineReasoningTokens ==
    <<"N", "u", "m", "b", "e", "r", " ", "o", "f", " ", "r", "e", "a", "s",
      "o", "n", "i", "n", "g", " ", "t", "o", "k", "e", "n", "s", " ", "(",
      "i", "n", "p", "u", "t", ")", ":">>

\* print(x): x and a line feed
PrintLine(x) == x \o <<NL>>

\* what honeypot_detector.py writes to stdout for one completion; the two
\* token counts that end it are written as 7 and 4
DetectorStdout(reasoning, content) ==
    PrintLine(LineClientCreated) \o PrintLine(LineCompletionCreated)
      \o PrintLine(LineReasoningContent) \o PrintLine(reasoning)
      \o PrintLine(<<NL>> \o FinalResponseMarker) \o PrintLine(content)
      \o PrintLine(<<NL>> \o LineCompletionTokens) \o PrintLine(<<"7">>)
      \o PrintLine(<<NL>> \o LineReasoningTokens) \o PrintLine(<<"4">>)

\* result.stdout.strip() and its parse, for each completion the backend gives
StdoutOf == [content \in Contents |->
                str_strip(DetectorStdout(ReasoningContent, content))]

ParsedReasons == [content \in Contents |-> extract_reasons(StdoutOf[content])]

VARIABLES
    store,          \* the honeypots table: a set of rows
    tmp_files,      \* tmp_<address>.txt in the working directory, by address
    pc,             \* where each request's handler is
    request,        \* each request's TokenRequest
    frame,          \* each handler's local variables
    response,       \* what each request was answered with
    trace,          \* per request: what it called, and who had ended before it
    text, result,   \* input and output of a stand-alone extract_reasons run
    cli             \* a run of the command-line client checkHP.py

vars ==
    <<store, tmp_files, pc, request, frame, response, trace, text, result, cli>>

Terminal == {"Done", "Error"}

NoRequest == [token_address |-> None, source_code |-> None]

EmptyFrame ==
    [source_code |-> None, code |-> None, backend |-> None, content |-> <<>>,
     reasons |-> <<>>, is_honeypot |-> FALSE, exc |-> None]

\* no response sent yet
NoResponse == [pending |-> TRUE]

NoTrace == [before |-> {}, held |-> FALSE, missed |-> FALSE,
            explorer_queries |-> 0, classifier_runs |-> 0]

NotParsed == [parsed |-> FALSE, reasons |-> <<>>, is_honeypot |-> FALSE]

\* no client run: the requests come from other callers of the endpoint
NoClient == [pc |-> "none", argv |-> <<>>, model |-> None, posted |-> None,
             result |-> None, status |-> None]

\* the model the detector script asks its completion of
BackendModel == "grok-3-mini-beta"

TmpKeys == {address_lower(a) : a \in Addresses}

Init ==
    /\ store = {}
    /\ tmp_files = [k \in TmpKeys |-> NoFile]
    /\ pc = [c \in Calls |-> "idle"]
    /\ request = [c \in Calls |-> NoRequest]
    /\ frame = [c \in Calls |-> EmptyFrame]
    /\ response = [c \in Calls |-> NoResponse]
    /\ trace = [c \in Calls |-> NoTrace]
    /\ text = <<>>
    /\ result = NotParsed
    /\ cli = NoClient

\* tmp_{token_address.lower()}.txt
tmp_file(token_address) == address_lower(token_address)

\* the filter of the lookup given the address as it came, .lower() left out
lookup_key_as_given(token_address) == token_address

\* the key the cache lookup filters on
lookup_key(token_address) == address_lower(token_address)

\* a lookup that also filters on the verdict
QueryHoneypotsOnly(rows, key) ==
    {r \in rows : r.token_address = key /\ r.is_honeypot}

\* db.query(HoneypotRecord).filter(token_address == key): the matching rows
QueryByAddress(rows, key) == {r \in rows : r.token_address = key}

\* the column declared without unique=True
UniqueViolationOff(rows, row) == FALSE

\* the unique constraint on honeypots.token_address
UniqueViolation(rows, row) == \E r \in rows : r.token_address = row.token_address

\* `if record:` on the result of .first()
record_found(found) == found /= {}

\* the autoincrement primary key
NextId(rows) == Cardinality(rows) + 1

HoneypotRecord(id, token_address, is_honeypot, reasons) ==
    [id |-> id, token_address |-> token_address,
     is_honeypot |-> is_honeypot, reasons |-> reasons]

\* the JSON body of a 200 answer
\* the answer with its cached flag fixed to False
AnswerFresh(record, cached) ==
    [token_address |-> record.token_address, is_honeypot |-> record.is_honeypot,
     reasons |-> record.reasons, cached |-> FALSE]

Answer(record, cached) ==
    [token_address |-> record.token_address, is_honeypot |-> record.is_honeypot,
     reasons |-> record.reasons, cached |-> cached]

\* the except clause: every exception becomes a 500 with its text as detail
Fail(c, detail) ==
    /\ pc' = [pc EXCEPT ![c] = "Error"]
    /\ response' = [response EXCEPT ![c] = [detail |-> detail]]
    /\ frame' = [frame EXCEPT ![c] = EmptyFrame]

\* a request arrives: the handler is entered
Start(c) ==
    /\ pc[c] = "idle"
    /\ IF c = 1 THEN TRUE ELSE pc[c - 1] /= "idle"
    /\ \E a \in Addresses, s \in SourceOverrides \cup {None} :
          request' = [request EXCEPT ![c] = [token_address |-> a, source_code |-> s]]
    /\ pc' = [pc EXCEPT ![c] = "CacheCheck"]
    /\ trace' = [trace EXCEPT
                    ![c].before = {d \in Calls : pc[d] \in Terminal},
                    ![c].held = \E r \in store :
                                    SameToken(r.token_address, request'[c].token_address)]
    /\ UNCHANGED <<store, tmp_files, frame, response, text, result, cli>>

\* the cache lookup, and the answer from the stored row on a hit
CacheCheck(c) ==
    /\ pc[c] = "CacheCheck"
    /\ LET found == QueryByAddress(store, lookup_key(request[c].token_address))
       IN  IF record_found(found)
           THEN /\ \E record \in found :
                      response' = [response EXCEPT ![c] = Answer(record, TRUE)]
                /\ pc' = [pc EXCEPT ![c] = "Done"]
                /\ UNCHANGED trace
           ELSE /\ pc' = [pc EXCEPT ![c] = "SourceFetch"]
                /\ trace' = [trace EXCEPT ![c].missed = TRUE]
                /\ UNCHANGED response
    /\ UNCHANGED <<store, tmp_files, request, frame, text, result, cli>>

\* the source of the request looked past: the explorer is asked every time
source_code_ignored(source_code) == FALSE

\* request.source_code is not None
source_code_given(source_code) == source_code /= None

\* the caller's source_code, or else one query of the explorer
SourceFetch(c) ==
    /\ pc[c] = "SourceFetch"
    /\ IF source_code_given(request[c].source_code)
       THEN /\ frame' = [frame EXCEPT ![c].source_code = request[c].source_code]
            /\ pc' = [pc EXCEPT ![c] = "Classify"]
            /\ UNCHANGED <<response, trace>>
       ELSE /\ trace' = [trace EXCEPT ![c].explorer_queries = @ + 1]
            /\ \/ /\ \E src \in ExplorerSources :
                        frame' = [frame EXCEPT ![c].source_code = src]
                  /\ pc' = [pc EXCEPT ![c] = "Classify"]
                  /\ UNCHANGED response
               \/ Fail(c, "SourceFetchError")
    /\ UNCHANGED <<store, tmp_files, request, text, result, cli>>

\* analyze_contract writes the hand-off file and starts the detector script
Classify(c) ==
    /\ pc[c] = "Classify"
    /\ tmp_files' = [tmp_files EXCEPT ![tmp_file(request[c].token_address)] =
                        frame[c].source_code]
    /\ trace' = [trace EXCEPT ![c].classifier_runs = @ + 1]
    /\ pc' = [pc EXCEPT ![c] = "Detector"]
    /\ UNCHANGED <<store, request, frame, response, text, result, cli>>

\* the detector script opens and reads the hand-off file
Detector(c) ==
    /\ pc[c] = "Detector"
    /\ LET content == tmp_files[tmp_file(request[c].token_address)]
       IN  IF content = NoFile
           THEN /\ frame' = [frame EXCEPT ![c].exc = "ClassifierError"]
                /\ pc' = [pc EXCEPT ![c] = "Cleanup"]
           ELSE /\ frame' = [frame EXCEPT ![c].code = content,
                                           ![c].backend = BackendModel]
                /\ pc' = [pc EXCEPT ![c] = "Backend"]
    /\ UNCHANGED <<store, tmp_files, request, response, trace, text, result, cli>>

\* the completion call: an answer that the script prints, or a failure that
\* ends the script with a non-zero status
Backend(c) ==
    /\ pc[c] = "Backend"
    /\ \/ /\ \E content \in Contents :
                frame' = [frame EXCEPT ![c].content = content, ![c].code = None,
                                       ![c].backend = None]
          /\ pc' = [pc EXCEPT ![c] = "Extract"]
       \/ /\ frame' = [frame EXCEPT ![c].exc = "ClassifierError", ![c].code = None,
                                     ![c].backend = None]
          /\ pc' = [pc EXCEPT ![c] = "Cleanup"]
    /\ UNCHANGED <<store, tmp_files, request, response, trace, text, result, cli>>

\* the service parses the script's output
Extract(c) ==
    /\ pc[c] = "Extract"
    /\ LET reasons == ParsedReasons[frame[c].content]
       IN  frame' = [frame EXCEPT ![c].reasons = reasons,
                                  ![c].is_honeypot = is_honeypot_of(reasons)]
    /\ pc' = [pc EXCEPT ![c] = "Cleanup"]
    /\ UNCHANGED <<store, tmp_files, request, response, trace, text, result, cli>>

\* the finally clause taken as swallowing the exception: the handler goes on
\* to save whatever it has
PersistDespiteFailure(c) ==
    /\ pc' = [pc EXCEPT ![c] = "Persist"]
    /\ UNCHANGED <<frame, response>>

\* after the finally clause: the pending exception goes on, or the result is returned
AfterFinally(c) ==
    IF frame[c].exc /= None
    THEN Fail(c, frame[c].exc)
    ELSE /\ pc' = [pc EXCEPT ![c] = "Persist"]
         /\ UNCHANGED <<frame, response>>

\* finally: os.path.exists(tmp_file)
Cleanup(c) ==
    /\ pc[c] = "Cleanup"
    /\ IF tmp_files[tmp_file(request[c].token_address)] /= NoFile
       THEN /\ pc' = [pc EXCEPT ![c] = "Remove"]
            /\ UNCHANGED <<frame, response>>
       ELSE AfterFinally(c)
    /\ UNCHANGED <<store, tmp_files, request, trace, text, result, cli>>

\* finally: os.remove(tmp_file), which raises when the file is gone by now
Remove(c) ==
    /\ pc[c] = "Remove"
    /\ LET f == tmp_file(request[c].token_address)
       IN  IF tmp_files[f] = NoFile
           THEN /\ Fail(c, "FileNotFoundError")
                /\ UNCHANGED tmp_files
           ELSE /\ tmp_files' = [tmp_files EXCEPT ![f] = NoFile]
                /\ AfterFinally(c)
    /\ UNCHANGED <<store, request, trace, text, result, cli>>

\* a failed commit that leaves the pending row in the table
KeptAfterFailure(rows, new_record) == rows \cup {new_record}

\* db.commit() when the database rejects the transaction for a reason of its
\* own (it is unreachable, it is out of space): the session is rolled back
RolledBack(rows, new_record) == rows

\* db.merge in place of db.add: the row for the address is replaced
CommitUpsert(rows, new_record) ==
    [ok |-> TRUE,
     rows |-> {r \in rows : r.token_address /= new_record.token_address}
                 \cup {new_record}]

\* db.add(new_record) and db.commit() on a database that takes the
\* transaction: the INSERT, which the unique constraint may refuse
Commit(rows, new_record) ==
    IF UniqueViolation(rows, new_record)
    THEN [ok |-> FALSE, rows |-> rows]
    ELSE [ok |-> TRUE, rows |-> rows \cup {new_record}]

\* db.add, db.commit, db.refresh and the answer built from the new row
Persist(c) ==
    /\ pc[c] = "Persist"
    /\ LET new_record == HoneypotRecord(NextId(store),
                                        address_lower(request[c].token_address),
                                        frame[c].is_honeypot, frame[c].reasons)
           committed  == Commit(store, new_record)
       IN  \/ /\ store' = committed.rows
              /\ IF committed.ok
                 THEN /\ response' = [response EXCEPT ![c] = Answer(new_record, FALSE)]
                      /\ pc' = [pc EXCEPT ![c] = "Done"]
                      /\ frame' = [frame EXCEPT ![c] = EmptyFrame]
                 ELSE Fail(c, "IntegrityError")
           \/ /\ store' = RolledBack(store, new_record)
              /\ Fail(c, "CacheError")
    /\ UNCHANGED <<tmp_files, request, trace, text, result, cli>>

Next ==
    \E c \in Calls :
        \/ Start(c)
        \/ CacheCheck(c)
        \/ SourceFetch(c)
        \/ Classify(c)
        \/ Detector(c)
        \/ Backend(c)
        \/ Extract(c)
        \/ Cleanup(c)
        \/ Remove(c)
        \/ Persist(c)

Spec == Init /\ [][Next]_vars

\* what the handler of a request that has arrived does next
Step(c) ==
    \/ CacheCheck(c)
    \/ SourceFetch(c)
    \/ Classify(c)
    \/ Detector(c)
    \/ Backend(c)
    \/ Extract(c)
    \/ Cleanup(c)
    \/ Remove(c)
    \/ Persist(c)

\* every call the handler makes returns or raises: the database, the
\* explorer (requests.get), the detector script (subprocess.run), the file
\* system
SpecFair == Spec /\ \A c \in Calls : WF_vars(Step(c))


\* ------------------------------------------------ the command-line client

\* sys.argv[1:]: no argument, an address, or an address and a model
CliModels == {"grok", "claude", "gpt"}

CliArgs ==
    {<<>>} \cup {<<a>> : a \in Addresses}
           \cup {<<a, m>> : a \in Addresses, m \in CliModels}

InitClient ==
    /\ store = {}
    /\ tmp_files = [k \in TmpKeys |-> NoFile]
    /\ pc = [c \in Calls |-> "idle"]
    /\ request = [c \in Calls |-> NoRequest]
    /\ frame = [c \in Calls |-> EmptyFrame]
    /\ response = [c \in Calls |-> NoResponse]
    /\ trace = [c \in Calls |-> NoTrace]
    /\ text = <<>>
    /\ result = NotParsed
    /\ \E argv \in CliArgs : cli = [NoClient EXCEPT !.pc = "main", !.argv = argv]

\* sys.exit(status), or the end of the script, which is status 0
Exit(status) == cli' = [cli EXCEPT !.pc = "exited", !.status = status]

\* the script body: the argument count, the model name, then main()
CliMain ==
    /\ cli.pc = "main"
    /\ IF Len(cli.argv) < 1
       THEN Exit(1)
       ELSE LET model == IF Len(cli.argv) > 1 THEN cli.argv[2] ELSE "grok"
            IN  IF model \notin {"grok", "claude"}
                THEN Exit(1)
                ELSE cli' = [cli EXCEPT !.pc = "check_ca", !.model = model]
    /\ UNCHANGED <<store, tmp_files, pc, request, frame, response, trace, text, result>>

\* check_ca up to the POST: the format test, which prints and returns, or
\* the request with the address, no source code and the model
CliCheckCa ==
    /\ cli.pc = "check_ca"
    /\ LET token_address == AddressBook[cli.argv[1]]
       IN  IF ~str_startswith(token_address, <<"0", "x">>) \/ Len(token_address) /= AddrLen
           THEN Exit(0)
           ELSE cli' = [cli EXCEPT
                           !.pc = "posted",
                           !.posted = [token_address |-> cli.argv[1],
                                       source_code |-> None,
                                       model |-> cli.model]]
    /\ UNCHANGED <<store, tmp_files, pc, request, frame, response, trace, text, result>>

\* the body of the POST read as a TokenRequest: the fields the class
\* declares, every other key of the body dropped
TokenRequest(body) ==
    [token_address |-> body.token_address, source_code |-> body.source_code]

\* the service takes the client's request
Receive ==
    /\ cli.pc = "posted"
    /\ Start(1)
    /\ request'[1] = TokenRequest(cli.posted)

\* aiohttp.ClientError: the service is not reached, check_honeypot is None
CliConnectError ==
    /\ cli.pc = "posted"
    /\ pc[1] = "idle"
    /\ Exit(0)
    /\ UNCHANGED <<store, tmp_files, pc, request, frame, response, trace, text, result>>

\* the response: the verdict is printed, or the error detail, and the
\* script ends
CliResult ==
    /\ cli.pc = "posted"
    /\ pc[1] \in Terminal
    /\ cli' = [cli EXCEPT
                  !.pc = "exited",
                  !.status = 0,
                  !.result = IF pc[1] = "Done"
                             THEN <<response[1].is_honeypot, response[1].reasons>>
                             ELSE None]
    /\ UNCHANGED <<store, tmp_files, pc, request, frame, response, trace, text, result>>

NextClient ==
    \/ CliMain
    \/ CliCheckCa
    \/ Receive
    \/ CliConnectError
    \/ CliResult
    \/ CacheCheck(1)
    \/ SourceFetch(1)
    \/ Classify(1)
    \/ Detector(1)
    \/ Backend(1)
    \/ Extract(1)
    \/ Cleanup(1)
    \/ Remove(1)
    \/ Persist(1)

SpecClient == InitClient /\ [][NextClient]_vars


\* ------------------------------------------- the parse of the output, alone

MaxTokens == 3      \* tokens in a generated decision line

DecisionTokens ==
    {<<SHI>>, <<FOU>>, <<"N", "o">>, <<"Y", "e", "s">>,
     <<"0">>, <<"1">>, <<",">>, <<" ">>}

RECURSIVE TokenLines(_)
TokenLines(n) ==
    IF n = 0 THEN {<<>>}
    ELSE LET shorter == TokenLines(n - 1)
         IN  shorter \cup {l \o t : l \in shorter, t \in DecisionTokens}

\* the third row of the extraction table of the specification
LineYesReasons ==
    <<"Y", "e", "s", ",", " ", "r", "e", "a", "s", "o", "n", "s", " ", "2",
      " ", "a", "n", "d", " ", "5">>

\* an answer that cites rule 0 beside another rule
LineShiZeroFive == <<SHI, "0", ",", "5">>

DecisionLines ==
    TokenLines(MaxTokens) \cup {LineYesReasons, LineShiZeroFive, ContentYes13}

\* what precedes the answer: nothing, a line of reasoning, or a header that
\* only holds the marker inside the line
HeadTexts ==
    {<<>>,
     PrintLine(ReasoningContent),
     PrintLine(<<" ">> \o FinalResponseMarker)}

\* the marker line, with or without text after the marker, or no marker line
MarkerTexts ==
    {PrintLine(FinalResponseMarker),
     PrintLine(FinalResponseMarker \o <<" ">>),
     <<>>}

\* blank lines between the marker line and the answer
GapTexts == {<<>>, <<NL>>}

\* what follows the answer
TailTexts == {<<>>, PrintLine(<<NL>> \o LineCompletionTokens)}

Texts ==
    {h \o m \o g \o d \o t :
        h \in HeadTexts, m \in MarkerTexts, g \in GapTexts,
        d \in DecisionLines, t \in TailTexts}

InitExtract ==
    /\ store = {}
    /\ tmp_files = [k \in TmpKeys |-> NoFile]
    /\ pc = [c \in Calls |-> "idle"]
    /\ request = [c \in Calls |-> NoRequest]
    /\ frame = [c \in Calls |-> EmptyFrame]
    /\ response = [c \in Calls |-> NoResponse]
    /\ trace = [c \in Calls |-> NoTrace]
    /\ text \in Texts
    /\ result = NotParsed
    /\ cli = NoClient

\* analyze_contract's parse of an output: the reasons and the verdict it returns
ParseOutput ==
    /\ ~result.parsed
    /\ LET reasons == extract_reasons(text)
       IN  result' = [parsed |-> TRUE, reasons |-> reasons,
                      is_honeypot |-> is_honeypot_of(reasons)]
    /\ UNCHANGED <<store, tmp_files, pc, request, frame, response, trace, text, cli>>

NextExtract == ParseOutput

SpecExtract == InitExtract /\ [][NextExtract]_vars


\* ---------------------------------------------------------------- claims

Started(c) == pc[c] /= "idle"

\* the rows the table holds for an address, whatever its spelling
RowsOf(a) == {r \in store : SameToken(r.token_address, a)}

SameVerdict(x, y) ==
    /\ x.token_address = y.token_address
    /\ x.is_honeypot = y.is_honeypot
    /\ x.reasons = y.reasons

\* d had ended successfully, for the address of c, when c arrived
SucceededBefore(d, c) ==
    /\ d \in trace[c].before
    /\ pc[d] = "Done"
    /\ SameToken(request[d].token_address, request[c].token_address)

\* c and d ran at the same time: neither had ended when the other arrived
Concurrent(c, d) ==
    /\ c /= d
    /\ Started(c) /\ Started(d)
    /\ d \notin trace[c].before
    /\ c \notin trace[d].before

\* C1: once an analyze call for an address has completed successfully, every
\* call that arrives later for that address answers with the same
\* token_address, is_honeypot and reasons, and on its way neither queries the
\* explorer nor runs the classifier.
C1_Idempotent ==
    \A c \in Calls : \A d \in Calls :
        SucceededBefore(d, c) =>
            /\ pc[c] \in {"CacheCheck", "Done"}
            /\ trace[c].explorer_queries = 0
            /\ trace[c].classifier_runs = 0
            /\ pc[c] = "Done" => SameVerdict(response[c], response[d])

C1_Witness ==
    \E c \in Calls : \E d \in Calls :
        /\ SucceededBefore(d, c)
        /\ pc[c] = "Done"
        /\ request[c].source_code = None
        /\ response[d].is_honeypot
        /\ ~response[d].cached

\* C2: the table never holds two rows for one token address, whatever the
\* interleaving; and after a call's INSERT was either taken or refused as a
\* duplicate, the table holds exactly one row for its address.
C2_StoreUnique ==
    /\ \A r1 \in store : \A r2 \in store :
          SameToken(r1.token_address, r2.token_address) => r1 = r2
    /\ \A c \in Calls :
          (\/ pc[c] = "Done"
           \/ (pc[c] = "Error" /\ response[c].detail = "IntegrityError"))
             => Cardinality(RowsOf(request[c].token_address)) = 1

C2_Witness ==
    \E c \in Calls : \E d \in Calls :
        /\ Concurrent(c, d)
        /\ SameToken(request[c].token_address, request[d].token_address)
        /\ trace[c].missed /\ trace[d].missed
        /\ pc[c] = "Done"
        /\ pc[d] = "Error" /\ response[d].detail = "IntegrityError"
        /\ Cardinality(RowsOf(request[c].token_address)) = 1

\* C3: when two concurrent calls for the same address both miss the cache,
\* neither ends in an error because of the duplicate INSERT, and when both
\* have ended successfully they carry equal is_honeypot and reasons, those of
\* the one stored row.
C3_BothCallersSucceed ==
    \A c \in Calls : \A d \in Calls :
        (/\ Concurrent(c, d)
         /\ SameToken(request[c].token_address, request[d].token_address)
         /\ trace[c].missed /\ trace[d].missed)
            => /\ pc[d] = "Error" => response[d].detail /= "IntegrityError"
               /\ (pc[c] = "Done" /\ pc[d] = "Done") =>
                     /\ response[c].is_honeypot = response[d].is_honeypot
                     /\ response[c].reasons = response[d].reasons
                     /\ \E r \in store : SameVerdict(r, response[c])


\* C4: two spellings of an address that differ only in letter case share one
\* row at most, every row is kept under the lower-cased spelling, and once a
\* call with one spelling has succeeded a later call with the other spelling
\* is answered from the cache with the same verdict.
C4_Normalized ==
    /\ \A r \in store : r.token_address \in LowerCased
    /\ \A r1 \in store : \A r2 \in store :
          SameToken(r1.token_address, r2.token_address) => r1 = r2
    /\ \A c \in Calls : \A d \in Calls :
          (SucceededBefore(d, c) /\ request[c].token_address /= request[d].token_address)
             => /\ pc[c] \in {"CacheCheck", "Done"}
                /\ pc[c] = "Done" =>
                      /\ response[c].cached
                      /\ SameVerdict(response[c], response[d])

C4_Witness ==
    \E c \in Calls : \E d \in Calls :
        /\ SucceededBefore(d, c)
        /\ request[d].token_address = "mixed"
        /\ request[c].token_address = "lower"
        /\ ~response[d].cached
        /\ pc[c] = "Done"
        /\ response[c].cached
        /\ store = {HoneypotRecord(1, "lower", response[d].is_honeypot,
                                   response[d].reasons)}

\* C5: in every verdict analyze_contract hands on to be stored, whatever the
\* classifier's output, is_honeypot is true exactly when reasons is not [0].
C5_VerdictInvariant ==
    result.parsed => (result.is_honeypot <=> (result.reasons /= <<0>>))

\* C6: in every reasons sequence that comes out of the parse, the code 0
\* never stands beside another code: if 0 is among the reasons, no other
\* code is (a consequence of: if 0 is among the reasons, they are [0]).
C6_ZeroExclusive ==
    result.parsed =>
        ((\E i \in 1..Len(result.reasons) : result.reasons[i] = 0)
            => (\A j \in 1..Len(result.reasons) : result.reasons[j] = 0))

\* every other started call for the address of c had ended when c arrived
RanAlone(c) ==
    \A d \in Calls \ {c} :
        (Started(d) /\ SameToken(request[d].token_address, request[c].token_address))
            => d \in trace[c].before

\* every call for the address of c that ended before c arrived had failed
OnlyFailuresBefore(c) ==
    \A d \in trace[c].before :
        SameToken(request[d].token_address, request[c].token_address)
            => pc[d] = "Error"

CollaboratorFailures == {"SourceFetchError", "ClassifierError", "CacheError"}

C8_Immutable ==
    [][\A r \in store : \E r2 \in store' :
            /\ r2.id = r.id
            /\ SameVerdict(r2, r)]_vars

C8_Witness ==
    \E c \in Calls : \E d \in Calls :
        /\ SucceededBefore(d, c)
        /\ ~response[d].cached
        /\ request[d].source_code = None
        /\ request[c].source_code /= None
        /\ pc[c] = "Done"
        /\ \E r \in store : SameVerdict(r, response[d])

\* C9: a call that arrives when the table holds a row for its address is
\* answered with that row; it does not depend on the explorer or on the
\* classifier, which it never calls, and it never ends in Error.
C9_HitShortCircuits ==
    \A c \in Calls :
        trace[c].held =>
            /\ pc[c] \in {"CacheCheck", "Done"}
            /\ ~trace[c].missed
            /\ trace[c].explorer_queries = 0
            /\ trace[c].classifier_runs = 0
            /\ pc[c] = "Done" =>
                  /\ response[c].cached
                  /\ \E r \in store : SameVerdict(r, response[c])

C9_Witness ==
    \E c \in Calls :
        /\ trace[c].held
        /\ pc[c] = "Done"
        /\ request[c].source_code = None
        /\ response[c].cached
        /\ response[c].is_honeypot

\* the positive token as the claim has it: the marker, or the word yes in any
\* letter case
ClaimedPositive(line) ==
    \/ str_contains(line, <<SHI>>)
    \/ str_contains(str_lower(line), <<"y", "e", "s">>)

\* C10: when the decision line holds no negative token, holds a positive
\* token (the marker, or 'Yes' in any letter case) and holds digits, the
\* reasons are its maximal digit runs as integers, in order, duplicates kept.
C10_PositiveExtraction ==
    LET line == FinalResponseOf(text)
        runs == re_findall_digits(line)
    IN  (/\ result.parsed
         /\ ~IsNegative(line)
         /\ ClaimedPositive(line)
         /\ runs /= <<>>)
            => result.reasons = [k \in 1..Len(runs) |-> int_of(runs[k])]

\* the decision line as the claim has it: the first line after the marker
\* line that is not blank, <<>> when there is none
ClaimedDecisionLine(output) ==
    LET lines == str_split(output)
        i     == FirstMarker(lines)
        filled == {k \in (i + 1)..Len(lines) : str_strip(lines[k]) /= <<>>}
    IN  IF i = 0 \/ filled = {} THEN <<>> ELSE str_strip(lines[SetMin(filled)])

\* C11: the reasons are those of the first non-blank line after the marker
\* line, blank lines in between skipped; [0] for lack of a decision line only
\* when no non-blank line follows the marker line.
C11_DecisionLineLocation ==
    result.parsed =>
        result.reasons =
            extract_reasons(PrintLine(FinalResponseMarker) \o ClaimedDecisionLine(text))

\* the text holds a line that starts with the marker
HasMarkerLine(output) ==
    LET lines == str_split(output)
    IN  \E i \in 1..Len(lines) : str_startswith(lines[i], FinalResponseMarker)

ClaimedNegative(line) ==
    \/ str_contains(line, <<FOU>>)
    \/ \E i \in 1..(Len(line) - 1) :
          /\ line[i] \in {"n", "N"}
          /\ line[i + 1] \in {"o", "O"}

\* C13: a decision line that holds a negative token gives [0], whatever
\* positive marker and digits it holds beside.
C13_NegativePriority ==
    (result.parsed /\ ClaimedNegative(ClaimedDecisionLine(text)))
        => result.reasons = <<0>>

\* a line with the positive marker, a digit and a capitalised No
C13_Witness ==
    LET line == ClaimedDecisionLine(text)
    IN  /\ result.parsed
        /\ str_contains(line, <<SHI>>)
        /\ str_contains(line, <<"N", "o">>)
        /\ re_findall_digits(line) /= <<>>
        /\ result.reasons = <<0>>

\* an address of 42 characters that starts with 0x
WellFormed(a) ==
    /\ Len(AddressBook[a]) = AddrLen
    /\ str_startswith(AddressBook[a], <<"0", "x">>)

\* C14: a call whose address is not a 42-character string starting with 0x
\* ends in the error InvalidAddressFormat, with no cache lookup, explorer
\* query or classifier run made for it and no row written for its address.
C14_MalformedRejected ==
    \A c \in Calls :
        (Started(c) /\ ~WellFormed(request[c].token_address)) =>
            /\ pc[c] \in {"CacheCheck", "Error"}
            /\ pc[c] = "Error" => response[c].detail = "InvalidAddressFormat"
            /\ ~trace[c].missed
            /\ trace[c].explorer_queries = 0
            /\ trace[c].classifier_runs = 0
            /\ RowsOf(request[c].token_address) = {}

\* the backend the claim has a model name select
ClaimedBackend(model) ==
    IF model = "grok" THEN "grok-3-mini-beta" ELSE "claude"

\* C15: the completion of a run is asked of the backend that the caller's
\* model parameter names; a request that selects the secondary model never
\* has the primary backend called.
C15_ModelSelection ==
    \A c \in Calls :
        (cli.pc = "posted" /\ pc[c] = "Backend")
            => frame[c].backend = ClaimedBackend(cli.posted.model)

\* C16: a run that misses the cache and whose request carries source_code
\* never queries the explorer; the explorer is queried by miss runs without
\* source_code only, once each, and by each of them that got past SourceFetch.
C16_OverridePrecedence ==
    \A c \in Calls :
        /\ trace[c].explorer_queries \in {0, 1}
        /\ (trace[c].missed /\ request[c].source_code \in SourceOverrides)
              => trace[c].explorer_queries = 0
        /\ trace[c].explorer_queries = 1
              => (trace[c].missed /\ request[c].source_code = None)
        /\ (/\ trace[c].missed
            /\ request[c].source_code = None
            /\ pc[c] /= "SourceFetch")
              => trace[c].explorer_queries = 1

\* a miss run with source_code went through to its verdict, explorer unasked
C16_Witness ==
    \E c \in Calls :
        /\ trace[c].missed
        /\ request[c].source_code \in SourceOverrides
        /\ pc[c] = "Done"
        /\ trace[c].classifier_runs = 1
        /\ trace[c].explorer_queries = 0

\* the client was started without an address, or with a malformed one
BadArguments ==
    \/ Len(cli.argv) < 1
    \/ ~WellFormed(cli.argv[1])

\* C17: the command-line client ends with a non-zero exit status when the
\* address argument is missing or malformed, and for a malformed address it
\* sends no request to the service.
C17_ExitStatus ==
    /\ (cli.pc = "exited" /\ BadArguments) => cli.status /= 0
    /\ (cli.pc /= "none" /\ Len(cli.argv) >= 1 /\ ~WellFormed(cli.argv[1]))
          => (cli.pc /= "posted" /\ pc[1] = "idle")

\* no other call for the address of c overlapped with c
NoOverlap(c) ==
    \A d \in Calls \ {c} :
        (Started(d) /\ SameToken(request[d].token_address, request[c].token_address))
            => (d \in trace[c].before \/ c \in trace[d].before)

\* C18: a successful answer has cached = false exactly when its run missed
\* the cache and ran the classifier, and cached = true exactly when it was
\* read from the table at the lookup; either way the table holds a row with
\* the verdict. With no overlapping call for the address, an answer is
\* cached exactly when an earlier call for the address had succeeded.
C18_CachedFlag ==
    \A c \in Calls :
        pc[c] = "Done" =>
            /\ ~response[c].cached <=> (trace[c].missed /\ trace[c].classifier_runs = 1)
            /\ response[c].cached <=> (~trace[c].missed /\ trace[c].classifier_runs = 0)
            /\ \E r \in store : SameVerdict(r, response[c])
            /\ NoOverlap(c) =>
                  (response[c].cached <=> \E d \in Calls : SucceededBefore(d, c))

\* the second of two calls in a row for the malformed address is cached
C18_Witness ==
    \E c \in Calls : \E d \in Calls :
        /\ SucceededBefore(d, c)
        /\ NoOverlap(c)
        /\ request[d].token_address = "short"
        /\ pc[c] = "Done"
        /\ ~response[d].cached
        /\ response[c].cached
        /\ response[c].reasons = <<0>>

\* the state of the pipeline a handler is in: writing the file, the detector
\* script and its completion call are Classify; the parse and, after it, the
\* removal of the file are Extract
StageOf(at, exc) ==
    CASE at \in {"Classify", "Detector", "Backend"} -> "Classify"
      [] at \in {"Cleanup", "Remove"} -> IF exc = None THEN "Extract" ELSE "Classify"
      [] OTHER -> at

StageMoves ==
    {<<"idle", "CacheCheck">>,
     <<"CacheCheck", "Done">>, <<"CacheCheck", "SourceFetch">>,
     <<"SourceFetch", "Classify">>, <<"Classify", "Extract">>,
     <<"Extract", "Persist">>, <<"Persist", "Done">>,
     <<"SourceFetch", "Error">>, <<"Classify", "Error">>,
     <<"Extract", "Error">>, <<"Persist", "Error">>}

\* C19: every call that has arrived ends in Done or Error; on its way it
\* moves CacheCheck -> Done, or CacheCheck -> SourceFetch -> Classify ->
\* Extract -> Persist -> Done, leaving that path only for Error, with no
\* state skipped or entered again; and the table changes only in the step of
\* a handler that is in Persist, after Extract, and ends in Done.
C19_Terminates ==
    /\ \A c \in Calls : (pc[c] = "CacheCheck") ~> (pc[c] \in Terminal)
    /\ [][\A c \in Calls :
            LET from == StageOf(pc[c], frame[c].exc)
                to   == StageOf(pc'[c], frame'[c].exc)
            IN  from = to \/ <<from, to>> \in StageMoves]_vars
    /\ [][store' /= store =>
            \E c \in Calls : pc[c] = "Persist" /\ pc'[c] = "Done"]_vars

\* a call went the whole miss path, explorer and classifier included
C19_Witness ==
    \E c \in Calls :
        /\ pc[c] = "Done"
        /\ trace[c].missed
        /\ trace[c].explorer_queries = 1
        /\ trace[c].classifier_runs = 1
        /\ ~response[c].cached
        /\ response[c].is_honeypot
        /\ tmp_files[tmp_file(request[c].token_address)] = NoFile

\* C20: whatever other runs for the address do meanwhile, the detector
\* script of a run finds the hand-off file, the text it reads from it is the
\* text the same run wrote, and the run does not fail because the file was
\* overwritten or removed by another run.
C20_HandOffIsolation ==
    \A c \in Calls :
        /\ pc[c] = "Detector" =>
              tmp_files[tmp_file(request[c].token_address)] = frame[c].source_code
        /\ pc[c] = "Backend" => frame[c].code = frame[c].source_code
        /\ pc[c] = "Error" => response[c].detail /= "FileNotFoundError"

====
